---- MODULE Spec2Model ----
(***************************************************************************)
(* Model of update_dd.py: the monthly heating-degree-day aggregation       *)
(* (dd_for_site) and the per-station merge loop of the script body.        *)
(*                                                                         *)
(* Numbers are binary64 floats, computed with the roundings and in the     *)
(* order of the script: the hourly degree-days of a month are added one    *)
(* after the other, from the first hour to the last, as the grouped mean   *)
(* of the pandas releases for Python 3.6 adds them.  The hourly readings   *)
(* of one calendar month are a sequence of runs [temp, hours] in time      *)
(* order.  Dates are records [year, month, day]; every timestamp the       *)
(* script keeps has a zero time of day.                                    *)
(***************************************************************************)
EXTENDS Integers, Sequences, FiniteSets, TLC

(***************************************************************************)
(* Natural numbers of any size: sequences of limbs, least significant      *)
(* first, without leading zero limbs; <<>> is zero                         *)
(***************************************************************************)
LimbBits == 15

LimbBase == 2^LimbBits

RECURSIVE BNorm(_)
BNorm(A) ==
    IF A = <<>> THEN <<>>
    ELSE IF A[Len(A)] = 0 THEN BNorm(SubSeq(A, 1, Len(A) - 1)) ELSE A

RECURSIVE BFromInt(_)
BFromInt(n) == IF n = 0 THEN <<>> ELSE <<n % LimbBase>> \o BFromInt(n \div LimbBase)

RECURSIVE BAddC(_, _, _)
BAddC(A, C, c) ==
    IF A = <<>> /\ C = <<>> THEN BFromInt(c)
    ELSE LET a == IF A = <<>> THEN 0 ELSE Head(A)
             b == IF C = <<>> THEN 0 ELSE Head(C)
             s == a + b + c
         IN  <<s % LimbBase>> \o BAddC(IF A = <<>> THEN <<>> ELSE Tail(A),
                                       IF C = <<>> THEN <<>> ELSE Tail(C),
                                       s \div LimbBase)

BAdd(A, C) == BAddC(A, C, 0)

\* A - C - c for A >= C + c, not normalised
RECURSIVE BSubC(_, _, _)
BSubC(A, C, c) ==
    IF A = <<>> THEN <<>>
    ELSE LET b == IF C = <<>> THEN 0 ELSE Head(C)
             d == Head(A) - b - c
         IN  <<d % LimbBase>> \o BSubC(Tail(A), IF C = <<>> THEN <<>> ELSE Tail(C),
                                       IF d < 0 THEN 1 ELSE 0)

BSub(A, C) == BNorm(BSubC(A, C, 0))

\* -1, 0 or 1 as A < C, A = C or A > C
RECURSIVE BCmpFrom(_, _, _)
BCmpFrom(A, C, i) ==
    IF i = 0 THEN 0
    ELSE IF A[i] < C[i] THEN -1
    ELSE IF A[i] > C[i] THEN 1
    ELSE BCmpFrom(A, C, i - 1)

BCmp(A, C) ==
    IF Len(A) < Len(C) THEN -1
    ELSE IF Len(A) > Len(C) THEN 1
    ELSE BCmpFrom(A, C, Len(A))

\* A * n + c for 0 <= n < LimbBase
RECURSIVE BMulSmallC(_, _, _)
BMulSmallC(A, n, c) ==
    IF A = <<>> THEN BFromInt(c)
    ELSE LET p == Head(A) * n + c
         IN  <<p % LimbBase>> \o BMulSmallC(Tail(A), n, p \div LimbBase)

BMulSmall(A, n) == BNorm(BMulSmallC(A, n, 0))

\* quotient (not normalised) and remainder of A by d, 0 < d < LimbBase
RECURSIVE BDivRec(_, _)
BDivRec(A, d) ==
    IF A = <<>> THEN [q |-> <<>>, r |-> 0]
    ELSE LET hi  == BDivRec(Tail(A), d)
             cur == hi.r * LimbBase + Head(A)
         IN  [q |-> <<cur \div d>> \o hi.q, r |-> cur % d]

BDivSmall(A, d) == LET x == BDivRec(A, d) IN [q |-> BNorm(x.q), r |-> x.r]

\* A * 2^k
BShl(A, k) ==
    IF A = <<>> THEN <<>>
    ELSE [i \in 1..(k \div LimbBits) |-> 0] \o BMulSmall(A, 2^(k % LimbBits))

\* floor(A / 2^k)
BShr(A, k) ==
    LET drop == k \div LimbBits
    IN  IF drop >= Len(A) THEN <<>>
        ELSE BDivSmall(SubSeq(A, drop + 1, Len(A)), 2^(k % LimbBits)).q

RECURSIVE IntBitLen(_)
IntBitLen(n) == IF n = 0 THEN 0 ELSE 1 + IntBitLen(n \div 2)

BBitLen(A) == IF A = <<>> THEN 0 ELSE LimbBits * (Len(A) - 1) + IntBitLen(A[Len(A)])

BIsOdd(A) == A # <<>> /\ A[1] % 2 = 1

(***************************************************************************)
(* binary64: sg * m * 2^e with sg 1 or -1 and m of exactly 53 bits; zero   *)
(* is [sg |-> 1, m |-> <<>>, e |-> 0] and NaN has sg = 0.  Exponent        *)
(* overflow and subnormals are out of the range of the script's values.    *)
(***************************************************************************)
MantissaBits == 53

FZero == [sg |-> 1, m |-> <<>>, e |-> 0]

NaN == [sg |-> 0, m |-> <<>>, e |-> 0]

IsNaN(a) == a.sg = 0

\* sg * M * 2^e rounded to nearest, ties to even; inexact says that the exact
\* value is above M * 2^e by less than 2^e
FRound(sg, M, e, inexact) ==
    LET L == BBitLen(M)
    IN  IF M = <<>> THEN FZero
        ELSE IF L <= MantissaBits
        THEN [sg |-> sg, m |-> BShl(M, MantissaBits - L), e |-> e - (MantissaBits - L)]
        ELSE LET sh   == L - MantissaBits
                 q    == BShr(M, sh)
                 rem  == BSub(M, BShl(q, sh))
                 half == BShl(<<1>>, sh - 1)
                 c    == BCmp(rem, half)
                 up   == \/ c = 1
                         \/ c = 0 /\ inexact
                         \/ c = 0 /\ ~inexact /\ BIsOdd(q)
                 q1   == IF up THEN BAdd(q, <<1>>) ELSE q
             IN  IF BBitLen(q1) > MantissaBits
                 THEN [sg |-> sg, m |-> BShr(q1, 1), e |-> e + sh + 1]
                 ELSE [sg |-> sg, m |-> q1, e |-> e + sh]

\* float(n) for an integer n
FFromInt(n) == FRound(IF n < 0 THEN -1 ELSE 1, BFromInt(IF n < 0 THEN -n ELSE n), 0, FALSE)

FNeg(a) == [a EXCEPT !.sg = IF a.m = <<>> THEN a.sg ELSE -a.sg]

\* a + b
FAdd(a, b) ==
    IF IsNaN(a) \/ IsNaN(b) THEN NaN
    ELSE IF a.m = <<>> THEN b
    ELSE IF b.m = <<>> THEN a
    ELSE LET e  == IF a.e < b.e THEN a.e ELSE b.e
             Ma == BShl(a.m, a.e - e)
             Mb == BShl(b.m, b.e - e)
         IN  IF a.sg = b.sg THEN FRound(a.sg, BAdd(Ma, Mb), e, FALSE)
             ELSE IF BCmp(Ma, Mb) >= 0 THEN FRound(a.sg, BSub(Ma, Mb), e, FALSE)
             ELSE FRound(b.sg, BSub(Mb, Ma), e, FALSE)

\* a - b
FSub(a, b) == FAdd(a, FNeg(b))

\* a * float(n) for an integer 0 <= n < LimbBase
FMulInt(a, n) ==
    IF IsNaN(a) THEN NaN ELSE FRound(a.sg, BMulSmall(a.m, n), a.e, FALSE)

\* a / float(n) for an integer 0 <= n < LimbBase; 0.0/0 is NaN
FDivInt(a, n) ==
    IF IsNaN(a) \/ n = 0 THEN NaN
    ELSE LET x == BDivSmall(BShl(a.m, LimbBits + 2), n)
         IN  FRound(a.sg, x.q, a.e - (LimbBits + 2), x.r # 0)

\* the binary64 nearest to n/d, as a decimal literal or a JSON number has it
FFromRat(n, d) == FDivInt(FFromInt(n), d)

\* a < b; false when either is NaN
FLT(a, b) ==
    /\ ~IsNaN(a)
    /\ ~IsNaN(b)
    /\ LET d == FSub(b, a) IN d.m # <<>> /\ d.sg = 1

FGT(a, b) == FLT(b, a)

(***************************************************************************)
(* Calendar                                                                *)
(***************************************************************************)
Date(y, m, d) == [year |-> y, month |-> m, day |-> d]

IsLeap(y) == (y % 4 = 0) /\ ((y % 100 # 0) \/ (y % 400 = 0))

DaysInMonth(y, m) ==
    IF m = 2 THEN (IF IsLeap(y) THEN 29 ELSE 28)
    ELSE IF m \in {4, 6, 9, 11} THEN 30 ELSE 31

DateLT(a, b) ==
    \/ a.year < b.year
    \/ a.year = b.year /\ a.month < b.month
    \/ a.year = b.year /\ a.month = b.month /\ a.day < b.day

DateLE(a, b) == a = b \/ DateLT(a, b)

NextDay(d) ==
    IF d.day < DaysInMonth(d.year, d.month) THEN Date(d.year, d.month, d.day + 1)
    ELSE IF d.month < 12 THEN Date(d.year, d.month + 1, 1)
    ELSE Date(d.year + 1, 1, 1)

\* date + timedelta(days = n), n >= 0
RECURSIVE AddDays(_, _)
AddDays(d, n) == IF n = 0 THEN d ELSE AddDays(NextDay(d), n - 1)

\* start_date.replace(day=1, hour=0, minute=0, second=0, microsecond=0)
MonthFloor(d) == Date(d.year, d.month, 1)

NextMonth(m) == IF m.month < 12 THEN Date(m.year, m.month + 1, 1)
                ELSE Date(m.year + 1, 1, 1)

PrevMonth(m) == IF m.month > 1 THEN Date(m.year, m.month - 1, 1)
                ELSE Date(m.year - 1, 12, 1)

\* the calendar months lo, ..., hi in ascending order (<<>> when hi < lo)
RECURSIVE MonthRange(_, _)
MonthRange(lo, hi) ==
    IF DateLT(hi, lo) THEN <<>> ELSE <<lo>> \o MonthRange(NextMonth(lo), hi)

(***************************************************************************)
(* Program constants                                                       *)
(***************************************************************************)
\* MIN_COVERAGE = 0.7
MIN_COVERAGE == FFromRat(7, 10)

Base60 == FFromInt(60)

Base65 == FFromInt(65)

HoursPerDay == 24

(***************************************************************************)
(* The remote source (the BMON API), as the script sees it.  The data it   *)
(* holds for a station's sensor is an answer with status "success" and the *)
(* hourly readings, an answer with another status ("failure"), or JSON     *)
(* that lacks the expected fields ("malformed").  Whether a request        *)
(* reaches the server at all is decided request by request, whatever the   *)
(* data.                                                                   *)
(***************************************************************************)
Stations == <<"PAED", "PAMR">>

StationSet == {Stations[i] : i \in 1..Len(Stations)}

\* rank of a station code in ascending string order
StationRank(s) == CHOOSE i \in 1..Len(Stations) : Stations[i] = s

FirstRemote == Date(2019, 11, 1)

LastRemote == Date(2019, 12, 1)

RemoteMonths == MonthRange(FirstRemote, LastRemote)

RemoteMonthSet == {RemoteMonths[i] : i \in 1..Len(RemoteMonths)}

\* 50.0 and 62.5
ColdTemp == FFromInt(50)

MildTemp == FFromRat(125, 2)

HoursIn(m) == DaysInMonth(m.year, m.month) * HoursPerDay

Run(t, h) == [temp |-> t, hours |-> h]

\* what one month of a sensor may hold: nothing, a single cold hour, the
\* largest number of cold hours with coverage <= 0.7, or one hour more than
\* that; the latest month, while it is still beginning, also a cold and a mild
\* hour
MonthOptions(m) ==
    LET n == HoursIn(m)
        k == (7 * n) \div 10
    IN  { <<>>,
          <<Run(ColdTemp, 1)>>,
          <<Run(ColdTemp, k)>>,
          <<Run(ColdTemp, k + 1)>> }
        \cup (IF m = LastRemote THEN {<<Run(ColdTemp, 1), Run(MildTemp, 1)>>} ELSE {})

NoReadings == [m \in RemoteMonthSet |-> <<>>]

ErrorStatuses == {"failure", "malformed"}

RemoteStationStates ==
    { [status |-> "success", readings |-> f] :
        f \in { g \in [RemoteMonthSet -> UNION {MonthOptions(m) : m \in RemoteMonthSet}] :
                  \A m \in RemoteMonthSet : g[m] \in MonthOptions(m) } }
    \cup { [status |-> e, readings |-> NoReadings] : e \in ErrorStatuses }

(***************************************************************************)
(* dd_for_site                                                             *)
(***************************************************************************)
\* number of readings in a month (DataFrame.count of the month's bucket)
RECURSIVE Count(_)
Count(rd) == IF rd = <<>> THEN 0 ELSE Head(rd).hours + Count(Tail(rd))

\* (base - x)/24.0 if x < base else 0.0
HourlyHdd(base, x) ==
    IF FLT(x, base) THEN FDivInt(FSub(base, x), HoursPerDay) ELSE FZero

\* acc + x + ... + x, n times x, one addition after the other
RECURSIVE AddRun(_, _, _)
AddRun(acc, x, n) ==
    IF n = 0 THEN acc
    ELSE IF n = 1 THEN FAdd(acc, x)
    ELSE LET mid == AddRun(acc, x, n \div 2)
         IN  IF IsNaN(mid) THEN NaN ELSE AddRun(mid, x, n - n \div 2)

\* the sum inside resample('1M').mean(): the hourly degree-days of the month
\* added from the first hour to the last
RECURSIVE SumHdd(_, _)
SumHdd(base, rd) ==
    IF rd = <<>> THEN FZero
    ELSE LET last == rd[Len(rd)]
         IN  AddRun(SumHdd(base, SubSeq(rd, 1, Len(rd) - 1)),
                    HourlyHdd(base, last.temp), last.hours)

\* resample('1M').mean() of the hourly degree-days of one month (NaN when empty)
MeanHdd(base, rd) == FDivInt(SumHdd(base, rd), Count(rd))

\* variant: the mean scaled by the hours that have data
ScaleHoursByPresent(m, rd) == Count(rd)

\* the hours the monthly mean is scaled by: dfc.total_hours
ScaleHours(m, rd) == HoursIn(m)

MonthHdd(base, m, rd) == FMulInt(MeanHdd(base, rd), ScaleHours(m, rd))

\* dfc.temp / dfc.total_hours
Coverage(m, rd) == FDivInt(FFromInt(Count(rd)), HoursIn(m))

\* one row of dfm
MonthRow(m, rd) ==
    [month |-> m, hdd60 |-> MonthHdd(Base60, m, rd), hdd65 |-> MonthHdd(Base65, m, rd),
     coverage |-> Coverage(m, rd)]

\* MonthRow for every month and every content of a month the sensors can have
MonthRows == [m \in RemoteMonthSet |-> [rd \in MonthOptions(m) |-> MonthRow(m, rd)]]

\* the readings the API returns for start_ts: those at or after st_dt_1
Readings(rem, st_dt_1) ==
    [m \in {x \in RemoteMonthSet : DateLE(st_dt_1, x)} |-> rem.readings[m]]

MinDate(S) == CHOOSE a \in S : \A b \in S : DateLE(a, b)

MaxDate(S) == CHOOSE a \in S : \A b \in S : DateLE(b, a)

\* resample('1M'): one bucket per calendar month from the month of the first
\* reading to the month of the last one, empty months in between included;
\* no reading at all gives no bucket
Resample(rd) ==
    LET present == {m \in DOMAIN rd : Count(rd[m]) > 0}
    IN  IF present = {} THEN <<>>
        ELSE LET ms == MonthRange(MinDate(present), MaxDate(present))
             IN  [i \in 1..Len(ms) |-> MonthRows[ms[i]][rd[ms[i]]]]

\* dd_for_site(stn, start_date) against the sensor data rem, the request
\* answered or not (requests.get raises): the exception it raises ("" when
\* none) and the DataFrame it returns
dd_for_site(rem, start_date, answered) ==
    CASE ~answered                -> [exc |-> "ConnectionError", dfm |-> <<>>]
      [] rem.status = "malformed" -> [exc |-> "KeyError", dfm |-> <<>>]
      [] rem.status = "failure"   -> [exc |-> "ValueError", dfm |-> <<>>]
      [] OTHER -> [exc |-> "", dfm |-> Resample(Readings(rem, MonthFloor(start_date)))]

(***************************************************************************)
(* DataFrame helpers of the script body.  A DataFrame indexed by station   *)
(* is a sequence of rows [station, month, hdd60, hdd65].                   *)
(***************************************************************************)
\* df.index.unique(): the station codes in order of first appearance
RECURSIVE IndexUnique(_)
IndexUnique(df) ==
    IF df = <<>> THEN <<>>
    ELSE LET init == IndexUnique(SubSeq(df, 1, Len(df) - 1))
             s    == df[Len(df)].station
         IN  IF \E i \in 1..Len(init) : init[i] = s THEN init ELSE Append(init, s)

\* df.loc[stn]: the rows of one station
Loc(df, stn) == SelectSeq(df, LAMBDA r : r.station = stn)

MonthsOf(rows) == {rows[i].month : i \in 1..Len(rows)}

\* variant: the earliest month of the station
LastMoEarliest(rows) == MinDate(MonthsOf(rows))

\* df_exist.loc[stn].month.max()
LastMo(rows) == MaxDate(MonthsOf(rows))

\* timedelta(days=32)
AnchorDays == 32

\* variant: four weeks added instead of 32 days
NextMoFourWeeks(last_mo) == AddDays(last_mo, AnchorDays - 4)

\* last_mo + timedelta(days=32)
NextMo(last_mo) == AddDays(last_mo, AnchorDays)

\* variant: coverage >= MIN_COVERAGE
AcceptAtLeast(row) == ~FLT(row.coverage, MIN_COVERAGE)

\* .query('coverage > @MIN_COVERAGE')
Accept(row) == FGT(row.coverage, MIN_COVERAGE)

\* reset_index, index = [stn] * len, drop(columns=['coverage'])
ToStationFrame(stn, df_new) ==
    [i \in 1..Len(df_new) |->
        [station |-> stn, month |-> df_new[i].month,
         hdd60 |-> df_new[i].hdd60, hdd65 |-> df_new[i].hdd65]]

\* the try block up to the call of dd_for_site: the exception raised ("" when
\* none) and the DataFrame dd_for_site returned
TryStation(df, rem, stn, answered) ==
    LET rows == Loc(df, stn)
    IN  IF Len(rows) = 1
        THEN \* .loc of a label that occurs once is a Series, its .month a single
             \* Timestamp, and Timestamp.max is an attribute, not a method
             [exc |-> "TypeError", dfm |-> <<>>]
        ELSE dd_for_site(rem[stn], NextMo(LastMo(rows)), answered)

\* the rest of the try block: the coverage filter and, for the months that
\* remain, the frame to append to new_dfs
Staged(stn, dfm) == ToStationFrame(stn, SelectSeq(dfm, Accept))

\* variant: a handler for the error dd_for_site raises itself only
CatchesValueErrorOnly(exc) == exc = "ValueError"

\* the bare "except:" clause of the loop
Catches(exc) == TRUE

RECURSIVE Flatten(_)
Flatten(dfs) == IF dfs = <<>> THEN <<>> ELSE Head(dfs) \o Flatten(Tail(dfs))

\* variant: the existing table left out of the concatenation
ConcatNewOnly(df, dfs) == Flatten(dfs)

\* pd.concat([df_exist] + new_dfs)
Concat(df, dfs) == df \o Flatten(dfs)

RowLT(a, b) ==
    \/ StationRank(a.station) < StationRank(b.station)
    \/ a.station = b.station /\ DateLT(a.month, b.month)

RECURSIVE Insert(_, _)
Insert(sorted, r) ==
    IF sorted = <<>> THEN <<r>>
    ELSE IF RowLT(r, Head(sorted)) THEN <<r>> \o sorted
    ELSE <<Head(sorted)>> \o Insert(Tail(sorted), r)

\* variant: a stable sort by month alone
SortByMonthOnly(df) ==
    LET F[i \in 0..Len(df)] ==
            IF i = 0 THEN <<>>
            ELSE LET r == df[i]
                     lt(a, b) == DateLT(a.month, b.month)
                     pos == Cardinality({j \in 1..Len(F[i-1]) : ~lt(r, F[i-1][j])})
                 IN  SubSeq(F[i-1], 1, pos) \o <<r>> \o SubSeq(F[i-1], pos + 1, Len(F[i-1]))
    IN  F[Len(df)]

\* reset_index; sort_values(['station', 'month']); set_index('station')
RECURSIVE SortValues(_)
SortValues(df) ==
    IF df = <<>> THEN <<>>
    ELSE Insert(SortValues(SubSeq(df, 1, Len(df) - 1)), df[Len(df)])

(***************************************************************************)
(* State                                                                   *)
(***************************************************************************)
VARIABLES
    dataset,    \* data/degree_days.pkl (and its CSV mirror): the persisted table
    remote,     \* the remote source: station -> sensor state
    pc,         \* "idle" (no process), "loop", "done" (written), "crashed"
    df_exist,   \* the table read at the start of the run
    todo,       \* stations the for loop has still to visit
    new_dfs,    \* list of new DataFrames to add to the existing one
    outcome,    \* station -> "pending" | "ok" | "error" in the current run
    returned,   \* station -> what dd_for_site returned in the current run
    rerun,      \* a run has ended and the remote data has not changed since
    unanswered, \* stations whose request failed to reach the server in the current run
    unanswered_before, \* when rerun: those of the run that ended last
    a_pc,       \* position of the anchor computation: "last" | "next" | "start"
    a_last,     \* a first-of-month date (last_mo)
    a_next,     \* last_mo + timedelta(days=32)
    a_start     \* st_dt_1 of dd_for_site for start_date = a_next

mvars == <<dataset, remote, pc, df_exist, todo, new_dfs, outcome, returned, rerun,
           unanswered, unanswered_before>>

avars == <<a_pc, a_last, a_next, a_start>>

vars == <<dataset, remote, pc, df_exist, todo, new_dfs, outcome, returned, rerun,
          unanswered, unanswered_before, a_pc, a_last, a_next, a_start>>

(***************************************************************************)
(* Bounds and initial tables                                               *)
(***************************************************************************)
\* the rows a station has in the table the first run reads: a single one (.loc
\* gives a Series) or MaxExisting (.loc gives a DataFrame)
MaxExisting == 2

\* the anchor computation is checked for the first-of-month dates of
\* AnchorNumYears years from AnchorFirstYear on
AnchorFirstYear == 2096

AnchorNumYears == 9

\* the latest month of every station in the initial table
LastInit == Date(2019, 10, 1)

RECURSIVE MonthsEndingAt(_, _)
MonthsEndingAt(m, n) ==
    IF n = 0 THEN <<>> ELSE Append(MonthsEndingAt(PrevMonth(m), n - 1), m)

Reverse(q) == [i \in 1..Len(q) |-> q[Len(q) + 1 - i]]

ExistingRows(s, n) ==
    LET ms == MonthsEndingAt(LastInit, n)
    IN  [i \in 1..n |->
            [station |-> s, month |-> ms[i],
             hdd60 |-> FFromInt(1200 + 10 * i + StationRank(s)),
             hdd65 |-> FFromInt(1350 + 10 * i + StationRank(s))]]

\* tables with at most one row per (station, month), in any station order and
\* with the months of a station ascending or descending
InitialDatasets ==
    { Flatten([i \in 1..Len(ord) |->
                 IF desc THEN Reverse(ExistingRows(ord[i], n[ord[i]]))
                         ELSE ExistingRows(ord[i], n[ord[i]])]) :
        ord \in {Stations, Reverse(Stations)},
        desc \in BOOLEAN,
        n \in [StationSet -> {1, MaxExisting}] }

NoOutcome == [s \in StationSet |-> "pending"]

NoReturn == [s \in StationSet |-> <<>>]

AnchorIdle == /\ a_pc = "last"
              /\ a_last = LastInit
              /\ a_next = LastInit
              /\ a_start = LastInit

Init ==
    /\ dataset \in InitialDatasets
    /\ remote \in [StationSet -> RemoteStationStates]
    /\ pc = "idle"
    /\ df_exist = <<>>
    /\ todo = <<>>
    /\ new_dfs = <<>>
    /\ outcome = NoOutcome
    /\ returned = NoReturn
    /\ rerun = FALSE
    /\ unanswered = {}
    /\ unanswered_before = {}
    /\ AnchorIdle

(***************************************************************************)
(* One run of the script                                                   *)
(***************************************************************************)
\* df_exist = pd.read_pickle(...); new_dfs = []
Start ==
    /\ pc = "idle"
    /\ df_exist' = dataset
    /\ todo' = IndexUnique(dataset)
    /\ new_dfs' = <<>>
    /\ pc' = "loop"
    /\ UNCHANGED <<dataset, remote, outcome, returned, rerun, unanswered,
                   unanswered_before, avars>>

\* one iteration of "for stn in df_exist.index.unique()": try body and
\* handler; the request of the iteration is answered or fails
ProcessStation ==
    /\ pc = "loop"
    /\ todo # <<>>
    /\ \E stn \in {Head(todo)}, answered \in BOOLEAN :
       \E r \in {TryStation(df_exist, remote, stn, answered)} :
        /\ unanswered' = (IF r.exc = "ConnectionError" THEN unanswered \cup {stn}
                          ELSE unanswered)
        /\ IF r.exc = ""
            THEN /\ \E df_new \in {Staged(stn, r.dfm)} :
                       new_dfs' = IF Len(df_new) > 0 THEN Append(new_dfs, df_new)
                                  ELSE new_dfs
                 /\ outcome' = [outcome EXCEPT ![stn] = "ok"]
                 /\ returned' = [returned EXCEPT ![stn] = r.dfm]
                 /\ todo' = Tail(todo)
                 /\ pc' = "loop"
            ELSE IF Catches(r.exc)
            THEN /\ outcome' = [outcome EXCEPT ![stn] = "error"]
                 /\ todo' = Tail(todo)
                 /\ pc' = "loop"
                 /\ UNCHANGED <<new_dfs, returned>>
            ELSE /\ pc' = "crashed"
                 /\ UNCHANGED <<new_dfs, outcome, returned, todo>>
    /\ UNCHANGED <<dataset, remote, df_exist, rerun, unanswered_before, avars>>

\* concat, sort, to_pickle and to_csv after the loop
Finish ==
    /\ pc = "loop"
    /\ todo = <<>>
    /\ dataset' = SortValues(Concat(df_exist, new_dfs))
    /\ pc' = "done"
    /\ UNCHANGED <<remote, df_exist, todo, new_dfs, outcome, returned, rerun,
                   unanswered, unanswered_before, avars>>

\* the script ends after the write: the process and its variables are gone
Exit ==
    /\ pc = "done"
    /\ pc' = "idle"
    /\ df_exist' = <<>>
    /\ todo' = <<>>
    /\ new_dfs' = <<>>
    /\ outcome' = NoOutcome
    /\ returned' = NoReturn
    /\ rerun' = TRUE
    /\ unanswered' = {}
    /\ unanswered_before' = unanswered
    /\ UNCHANGED <<dataset, remote, avars>>

\* the sensor data goes from a to b by a change of the kind of answer, or by a
\* change of the readings of one month
OneChange(a, b) ==
    \/ a.status # b.status
    \/ Cardinality({m \in RemoteMonthSet : a.readings[m] # b.readings[m]}) = 1

\* between two runs the data of one station's sensor changes
RemoteChange ==
    /\ pc = "idle"
    /\ rerun
    /\ \E s \in StationSet, v \in RemoteStationStates :
          /\ OneChange(remote[s], v)
          /\ remote' = [remote EXCEPT ![s] = v]
    /\ rerun' = FALSE
    /\ unanswered_before' = {}
    /\ UNCHANGED <<dataset, pc, df_exist, todo, new_dfs, outcome, returned,
                   unanswered, avars>>

Next == Start \/ ProcessStation \/ Finish \/ Exit \/ RemoteChange

Spec == Init /\ [][Next]_vars

(***************************************************************************)
(* The anchor computation on its own: next_mo of the loop body followed by *)
(* st_dt_1 of dd_for_site, for every first-of-month date of the range      *)
(***************************************************************************)
AnchorYears == AnchorFirstYear..(AnchorFirstYear + AnchorNumYears - 1)

MainIdle ==
    /\ dataset = <<>>
    /\ remote = [s \in StationSet |-> [status |-> "failure", readings |-> NoReadings]]
    /\ pc = "idle"
    /\ df_exist = <<>>
    /\ todo = <<>>
    /\ new_dfs = <<>>
    /\ outcome = NoOutcome
    /\ returned = NoReturn
    /\ rerun = FALSE
    /\ unanswered = {}
    /\ unanswered_before = {}

InitAnchor ==
    /\ MainIdle
    /\ a_pc = "last"
    /\ a_last \in {Date(y, m, 1) : y \in AnchorYears, m \in 1..12}
    /\ a_next = a_last
    /\ a_start = a_last

\* next_mo = last_mo + timedelta(days=32)
ComputeNextMo ==
    /\ a_pc = "last"
    /\ a_next' = NextMo(a_last)
    /\ a_pc' = "next"
    /\ UNCHANGED <<a_last, a_start, mvars>>

\* st_dt_1 = start_date.replace(day=1, ...)
NormalizeStart ==
    /\ a_pc = "next"
    /\ a_start' = MonthFloor(a_next)
    /\ a_pc' = "start"
    /\ UNCHANGED <<a_last, a_next, mvars>>

NextAnchor == ComputeNextMo \/ NormalizeStart

SpecAnchor == InitAnchor /\ [][NextAnchor]_vars

(***************************************************************************)
(* Properties                                                              *)
(***************************************************************************)
Elems(q) == {q[i] : i \in 1..Len(q)}

BagOfSeq(q) == [x \in Elems(q) |-> Cardinality({i \in 1..Len(q) : q[i] = x})]

\* the table row a month returned by dd_for_site becomes for station s
AsRow(s, r) == [station |-> s, month |-> r.month, hdd60 |-> r.hdd60, hdd65 |-> r.hdd65]

\* coverage above 0.7, stated on the fraction <<hours present, hours>> itself
Above70(cov) == 10 * cov[1] > 7 * cov[2]

\* exact values m * 2^e, m a natural number of any size
Dy(M, e) == [m |-> M, e |-> e]

DyAt(a, e) == BShl(a.m, a.e - e)

DyMinExp(a, b) == IF a.e < b.e THEN a.e ELSE b.e

DyLE(a, b) == BCmp(DyAt(a, DyMinExp(a, b)), DyAt(b, DyMinExp(a, b))) <= 0

DyEq(a, b) == DyLE(a, b) /\ DyLE(b, a)

DyAdd(a, b) == Dy(BAdd(DyAt(a, DyMinExp(a, b)), DyAt(b, DyMinExp(a, b))), DyMinExp(a, b))

DyAbsDiff(a, b) ==
    LET e == DyMinExp(a, b)
    IN  IF DyLE(b, a) THEN Dy(BSub(DyAt(a, e), DyAt(b, e)), e)
        ELSE Dy(BSub(DyAt(b, e), DyAt(a, e)), e)

DyMulSmall(a, n) == Dy(BMulSmall(a.m, n), a.e)

\* the exact D * (base - T) for T < base
IdealHdd(base, T, D) ==
    DyMulSmall(IF T.sg = -1 THEN DyAdd(base, T) ELSE DyAbsDiff(base, T), D)

\* |x - v| <= v / 10^12
WithinRounding(x, v) ==
    DyLE(DyMulSmall(DyMulSmall(DyMulSmall(DyAbsDiff(x, v), 10^4), 10^4), 10^4), v)

\* the months dd_for_site returned for station s whose readings all have one
\* temperature: <<row, temperature, days of the month, hours present>>
ConstantMonthsOf(s) ==
    { <<returned[s][i], remote[s].readings[returned[s][i].month][1].temp,
        DaysInMonth(returned[s][i].month.year, returned[s][i].month.month),
        remote[s].readings[returned[s][i].month][1].hours>> :
        i \in {j \in 1..Len(returned[s]) :
                 Len(remote[s].readings[returned[s][j].month]) = 1} }

ConstantMonths == UNION {ConstantMonthsOf(s) : s \in StationSet}

ExactHdd(c) ==
    /\ FLT(c[2], Base60) => DyEq(c[1].hdd60, IdealHdd(Base60, c[2], c[3]))
    /\ FLT(c[2], Base65) => DyEq(c[1].hdd65, IdealHdd(Base65, c[2], c[3]))

RoundedHdd(c) ==
    /\ FLT(c[2], Base60) => WithinRounding(c[1].hdd60, IdealHdd(Base60, c[2], c[3]))
    /\ FLT(c[2], Base65) => WithinRounding(c[1].hdd65, IdealHdd(Base65, c[2], c[3]))

\* the coverage the remote source has for month m of station s
RemoteCoverage(s, m) ==
    IF m \in RemoteMonthSet THEN <<Count(remote[s].readings[m]), HoursIn(m)>>
    ELSE <<0, 1>>

FollowingMonth(a, b) ==
    /\ b.day = 1
    /\ \/ a.month < 12 /\ b.year = a.year /\ b.month = a.month + 1
       \/ a.month = 12 /\ b.year = a.year + 1 /\ b.month = 1

\* C1: a station that has exactly one row, whose sensor offers the next month
\* with coverage above 0.7 and the month after it with coverage at or below
\* 0.7, ends the run with exactly two rows: the one it had and the next month.
C1_SingleRowStationUpdated ==
    pc = "done" =>
        \A s \in StationSet :
            LET old == Loc(df_exist, s)
                new == Loc(dataset, s)
            IN  ( /\ Len(old) = 1
                  /\ remote[s].status = "success"
                  /\ \E m1, m2 \in RemoteMonthSet :
                        /\ FollowingMonth(old[1].month, m1)
                        /\ FollowingMonth(m1, m2)
                        /\ Above70(RemoteCoverage(s, m1))
                        /\ ~Above70(RemoteCoverage(s, m2)) )
                => /\ Len(new) = 2
                   /\ \E i \in 1..2 : new[i] = old[1]
                   /\ \E i \in 1..2 : FollowingMonth(old[1].month, new[i].month)

\* C2: the persisted table never holds two records with the same
\* (station, month), whatever the runs, remote changes and failures so far.
C2_Uniqueness ==
    \A i, j \in 1..Len(dataset) :
        (dataset[i].station = dataset[j].station /\ dataset[i].month = dataset[j].month)
            => i = j

\* a run has appended rows for a station that already had rows for months the
\* sensor still reports
C2_Witness ==
    /\ pc = "done"
    /\ \E s \in StationSet :
          /\ outcome[s] = "ok"
          /\ Len(Loc(dataset, s)) > Len(Loc(df_exist, s))
          /\ \E m \in MonthsOf(Loc(df_exist, s)) \cap RemoteMonthSet :
                Count(remote[s].readings[m]) > 0

\* C3 as stated: a run that directly follows a run, the remote data unchanged
\* in between, persists exactly the table it read, the one the first run
\* persisted: same rows, same order.
C3_IdenticalSecondRun == (pc = "done" /\ rerun) => dataset = df_exist

\* C3, amended: in a run that directly follows a run, the remote data
\* unchanged in between, a station whose request did not fail in the first
\* run keeps exactly its rows; and when no station whose request failed in the
\* first run is answered in the second, the second run persists exactly the
\* table it read: same rows, same order.
C3_Idempotence ==
    (pc = "done" /\ rerun) =>
        /\ \A s \in StationSet \ unanswered_before :
              Loc(dataset, s) = Loc(df_exist, s)
        /\ (\A s \in unanswered_before : outcome[s] # "ok") => dataset = df_exist

\* such a second run, over a table that holds months the first run appended
\* for a station answered in both runs, while the request of another station
\* failed in the first run and again in the second
C3_Witness ==
    /\ pc = "done"
    /\ rerun
    /\ \E s \in StationSet \ unanswered_before :
          /\ outcome[s] = "ok"
          /\ MonthsOf(Loc(df_exist, s)) \cap RemoteMonthSet # {}
    /\ \E s \in unanswered_before : s \in unanswered

\* C4: for a station processed without error, a month returned by dd_for_site
\* is among the rows staged for appending exactly when its coverage is
\* strictly above 0.7, and at the end of the run the persisted table holds the
\* staged rows.
C4_StrictThreshold ==
    \A s \in StationSet :
        outcome[s] = "ok" =>
            \A i \in 1..Len(returned[s]) :
                LET r == returned[s][i]
                IN  /\ (AsRow(s, r) \in Elems(Flatten(new_dfs))) <=> Above70(RemoteCoverage(s, r.month))
                    /\ (pc = "done" /\ ~Above70(RemoteCoverage(s, r.month)))
                           => ~\E k \in 1..Len(dataset) :
                                  /\ dataset[k].station = s
                                  /\ dataset[k].month = r.month
                    /\ (pc = "done" /\ Above70(RemoteCoverage(s, r.month)))
                           => AsRow(s, r) \in Elems(dataset)

\* a finished run in which one station got a month with coverage exactly 0.7
\* and a month with coverage above it
C4_Witness ==
    /\ pc = "done"
    /\ \E s \in StationSet :
          /\ outcome[s] = "ok"
          /\ \E i, j \in 1..Len(returned[s]) :
                /\ 10 * Count(remote[s].readings[returned[s][i].month])
                       = 7 * HoursIn(returned[s][i].month)
                /\ Above70(RemoteCoverage(s, returned[s][j].month))

\* C5: a run never aborts on a station's error: every station is processed and
\* the final write is reached; then a station that raised has exactly the rows
\* it had, and every qualifying new row of a station that succeeded is there.
C5_FailureIsolation ==
    /\ pc # "crashed"
    /\ pc = "done" =>
          \A s \in Elems(IndexUnique(df_exist)) :
              /\ outcome[s] \in {"ok", "error"}
              /\ outcome[s] = "error" =>
                    BagOfSeq(Loc(dataset, s)) = BagOfSeq(Loc(df_exist, s))
              /\ outcome[s] = "ok" =>
                    \A i \in 1..Len(returned[s]) :
                        Above70(RemoteCoverage(s, returned[s][i].month))
                            => AsRow(s, returned[s][i]) \in Elems(dataset)

\* a finished run whose first station raised because of the remote source and
\* whose later station succeeded with new rows
C5_Witness ==
    /\ pc = "done"
    /\ Len(IndexUnique(df_exist)) = 2
    /\ LET x == IndexUnique(df_exist)[1]
           y == IndexUnique(df_exist)[2]
       IN  /\ outcome[x] = "error"
           /\ (remote[x].status \in ErrorStatuses \/ x \in unanswered)
           /\ Len(Loc(df_exist, x)) > 1
           /\ outcome[y] = "ok"
           /\ Len(Loc(dataset, y)) > Len(Loc(df_exist, y))

\* C6: the table persisted by a run is in ascending order of station and,
\* within a station, of month.
C6_MergeOrdering ==
    pc = "done" =>
        \A i \in 1..(Len(dataset) - 1) :
            \/ StationRank(dataset[i].station) < StationRank(dataset[i + 1].station)
            \/ /\ dataset[i].station = dataset[i + 1].station
               /\ DateLE(dataset[i].month, dataset[i + 1].month)

\* a finished run that read a table with the stations in descending order and
\* staged new rows for both
C6_Witness ==
    /\ pc = "done"
    /\ Len(new_dfs) = 2
    /\ StationRank(df_exist[1].station) > StationRank(df_exist[Len(df_exist)].station)

\* C7: no step removes or alters a record of the persisted table: every record
\* is still there, as many times, after the step.
C7_AppendOnly ==
    [][\/ dataset' = dataset
       \/ \A x \in Elems(dataset) :
             Cardinality({i \in 1..Len(dataset') : dataset'[i] = x})
                 >= Cardinality({i \in 1..Len(dataset) : dataset[i] = x})]_vars

\* a finished run with a station that failed and a station that got new rows
C7_Witness ==
    /\ pc = "done"
    /\ Len(dataset) > Len(df_exist)
    /\ \E s \in StationSet : outcome[s] = "error"

\* C8 as stated: for a month whose present readings all have the same
\* temperature T, the month's hdd60 that dd_for_site returns is exactly
\* D*(60 - T) when T < 60 and its hdd65 exactly D*(65 - T) when T < 65, D the
\* days of the month, however many readings are present.
C8_ExactImputation ==
    [][\A s \in StationSet :
          returned'[s] # returned[s] => \A c \in ConstantMonthsOf(s)' : ExactHdd(c)]_vars

\* C8, amended: for such a month with 1 <= H <= D*24 readings, the hdd60 that
\* dd_for_site returns is D*(60 - T) when T < 60, and the hdd65 is D*(65 - T)
\* when T < 65, up to the rounding of the binary64 sum, quotients and
\* product: within a 10^-12 part of it.
C8_ImputationByMean ==
    [][\A s \in StationSet :
          returned'[s] # returned[s] => \A c \in ConstantMonthsOf(s)' : RoundedHdd(c)]_vars

\* dd_for_site returned a month with a single reading and a month with more
\* than 70% of its hours, all at one temperature below 60, the hdd60 of the
\* latter not exactly D*(60 - T)
C8_Witness ==
    \E c, d \in ConstantMonths :
        /\ c[4] = 1
        /\ FLT(c[2], Base60)
        /\ 10 * d[4] > 7 * d[3] * HoursPerDay
        /\ FLT(d[2], Base60)
        /\ ~DyEq(d[1].hdd60, IdealHdd(Base60, d[2], d[3]))

\* C9: for every first-of-month date last_mo, last_mo + 32 days floored to the
\* first of its month is the first day of the month right after last_mo.
C9_NextMonthAnchor == a_pc = "start" => FollowingMonth(a_last, a_start)

\* the anchor of a 28-day month has been computed
C9_Witness ==
    /\ a_pc = "start"
    /\ a_last.month = 2
    /\ DaysInMonth(a_last.year, a_last.month) = 28

\* C10: a record a step adds for a station has a month later than every month
\* the station had before the step; so a month skipped while a later month
\* was accepted is never added afterwards.
C10_NoBackfill ==
    [][\/ dataset' = dataset
       \/ \A x \in Elems(dataset') \ Elems(dataset) :
             \A y \in Elems(dataset) :
                 y.station = x.station => DateLT(y.month, x.month)]_vars

\* a finished run that left out an earlier month of a station although the
\* sensor now has more than 70% of its hours
C10_Witness ==
    /\ pc = "done"
    /\ \E s \in StationSet, m \in RemoteMonthSet :
          /\ outcome[s] = "ok"
          /\ DateLT(m, LastMo(Loc(df_exist, s)))
          /\ m \notin MonthsOf(Loc(dataset, s))
          /\ Above70(RemoteCoverage(s, m))

====
